---- MODULE Spec2Model ----
(***************************************************************************)
(* Model of the counterweight fill calculator (src/App.tsx).               *)
(*                                                                         *)
(* calculateCounterweight is a pure function; it is modelled as a small    *)
(* sequential program whose local variables are the state and whose        *)
(* statements are the actions.  Init draws the four arguments from         *)
(* bounded sets (specification Spec).  The materials editor of the App     *)
(* component is a second specification, AppSpec, over the same variables.  *)
(*                                                                         *)
(* JavaScript numbers are modelled as exact rationals <<n, d>> in lowest   *)
(* terms with d > 0, extended by Infinity <<1,0>>, -Infinity <<-1,0>> and   *)
(* NaN <<0,0>> (the values Math.min() / Math.max() of an empty list and    *)
(* their products produce).  Binary rounding of IEEE doubles is not        *)
(* modelled.                                                               *)
(***************************************************************************)
EXTENDS Integers, Sequences, FiniteSets, TLC

(***************************************************************************)
(* Number arithmetic                                                       *)
(***************************************************************************)
Abs(x) == IF x < 0 THEN -x ELSE x

Sgn(x) == IF x < 0 THEN -1 ELSE IF x > 0 THEN 1 ELSE 0

RECURSIVE GCD(_, _)
GCD(a, b) == IF b = 0 THEN a ELSE GCD(b, a % b)

\* the number n/d in lowest terms (d # 0)
R(n, d) ==
  LET g == GCD(Abs(n), Abs(d))
  IN  IF d < 0 THEN << -(n \div g), -(d \div g) >> ELSE << n \div g, d \div g >>

Num(n) == << n, 1 >>

Infinity == << 1, 0 >>
NegInfinity == << -1, 0 >>
NaN == << 0, 0 >>

IsFinite(a) == a[2] # 0
IsNaN(a) == a = NaN

Neg(a) == << -a[1], a[2] >>

\* a * b
Mul(a, b) ==
  IF IsFinite(a) /\ IsFinite(b)
  THEN LET g1 == GCD(Abs(a[1]), b[2])
           g2 == GCD(Abs(b[1]), a[2])
       IN  << (a[1] \div g1) * (b[1] \div g2), (a[2] \div g2) * (b[2] \div g1) >>
  ELSE << Sgn(a[1]) * Sgn(b[1]), 0 >>

\* a + b
Add(a, b) ==
  IF IsFinite(a) /\ IsFinite(b)
  THEN LET g == GCD(a[2], b[2])
       IN  R(a[1] * (b[2] \div g) + b[1] * (a[2] \div g), (a[2] \div g) * b[2])
  ELSE IF IsNaN(a) \/ IsNaN(b) THEN NaN
  ELSE IF ~IsFinite(a) /\ ~IsFinite(b) THEN (IF a = b THEN a ELSE NaN)
  ELSE IF IsFinite(a) THEN b ELSE a

\* a - b
Sub(a, b) == Add(a, Neg(b))

\* a / b for finite a and finite b # 0
Div(a, b) ==
  IF b[1] < 0 THEN Mul(a, << -b[2], -b[1] >>) ELSE Mul(a, << b[2], b[1] >>)

\* sign of n1/d1 - n2/d2 (d1, d2 > 0), by comparing continued fractions
RECURSIVE CmpFrac(_, _, _, _)
CmpFrac(n1, d1, n2, d2) ==
  LET q1 == n1 \div d1
      q2 == n2 \div d2
      r1 == n1 % d1
      r2 == n2 % d2
  IN  IF q1 < q2 THEN -1
      ELSE IF q1 > q2 THEN 1
      ELSE IF r1 = 0 /\ r2 = 0 THEN 0
      ELSE IF r1 = 0 THEN -1
      ELSE IF r2 = 0 THEN 1
      ELSE CmpFrac(d2, r2, d1, r1)

\* a < b, a <= b, a >= b, a > b as JavaScript compares numbers
Less(a, b) ==
  IF IsNaN(a) \/ IsNaN(b) THEN FALSE
  ELSE IF IsFinite(a) /\ IsFinite(b) THEN CmpFrac(a[1], a[2], b[1], b[2]) = -1
  ELSE IF IsFinite(a) THEN b = Infinity
  ELSE IF IsFinite(b) THEN a = NegInfinity
  ELSE a = NegInfinity /\ b = Infinity

Leq(a, b) == ~IsNaN(a) /\ ~IsNaN(b) /\ (a = b \/ Less(a, b))
Greater(a, b) == Less(b, a)
Geq(a, b) == Leq(b, a)

\* Math.min(a, b), Math.max(a, b), Math.abs(a)
MathMin(a, b) == IF IsNaN(a) \/ IsNaN(b) THEN NaN ELSE IF Less(b, a) THEN b ELSE a
MathMax(a, b) == IF IsNaN(a) \/ IsNaN(b) THEN NaN ELSE IF Less(a, b) THEN b ELSE a
MathAbs(a) == << Abs(a[1]), a[2] >>

\* Math.min(...xs) and Math.max(...xs) of a list of numbers
RECURSIVE MathMinOf(_)
MathMinOf(xs) == IF xs = << >> THEN Infinity ELSE MathMin(Head(xs), MathMinOf(Tail(xs)))

RECURSIVE MathMaxOf(_)
MathMaxOf(xs) == IF xs = << >> THEN NegInfinity ELSE MathMax(Head(xs), MathMaxOf(Tail(xs)))

\* x.toFixed(1): the number with one decimal nearest to x, the larger on a tie
ToFixed1(a) ==
  IF ~IsFinite(a) THEN a
  ELSE LET n     == Abs(a[1])
           whole == n \div a[2]
           rest  == n % a[2]
           tenth == whole * 10 + ((20 * rest + a[2]) \div (2 * a[2]))
       IN  R(Sgn(a[1]) * tenth, 10)

(***************************************************************************)
(* Arguments of calculateCounterweight                                     *)
(***************************************************************************)
\* longest materials list passed to the function
MaxMaterials == 3

\* name and density of the materials of the application and of the examples
Pool ==
  << [name |-> "Beton", density |-> Num(2400)],
     [name |-> "Ocel", density |-> Num(7850)],
     [name |-> "Material 3", density |-> Num(1000)],
     [name |-> "Material 4", density |-> Num(500)] >>

\* steel and a material 200000 kg/m3 denser than steel
HeavyPool ==
  << [name |-> "Ocel", density |-> Num(7850)],
     [name |-> "Material 5", density |-> Num(207850)] >>

\* the orders of 1..n
Perms(n) == { p \in [1..n -> 1..n] : \A a, b \in 1..n : a # b => p[a] # p[b] }

\* the materials lists of length n: any entries of pool, priorities any order of 1..n
ListsOfLen(pool, n) ==
  { [j \in 1..n |-> [id |-> j, name |-> pool[c[j]].name,
                     density |-> pool[c[j]].density, priority |-> p[j]]] :
      c \in [1..n -> 1..Len(pool)], p \in Perms(n) }

MaterialLists(pool) == UNION { ListsOfLen(pool, n) : n \in 0..MaxMaterials }

\* box dimensions in mm: a box of 1 m3, and the application's default (0.108 m3)
UnitBox == [width |-> 1000, depth |-> 1000, height |-> 1000]
DefaultBox == [width |-> 600, depth |-> 100, height |-> 1800]

\* frame weights in kg
FrameWeights == { Num(79) }

\* target total weights in kg
WholeTargets == { Num(50), Num(79), Num(108), Num(780), Num(1079), Num(10079) }

\* targets 0.005 kg and 0.01 kg above a box of steel
FineTargets == { R(7929005, 1000), R(792901, 100) }

\* targets up to 0.15 kg and 0.25 kg above a box of the heavy material
HeavyTargets == { Num(79), Num(10079), R(20792915, 100), R(20792925, 100) }

\* the (dimensions, targetTotalWeight, materials) combinations explored
Scenarios ==
  ((({ UnitBox, DefaultBox } \X WholeTargets) \cup ({ UnitBox } \X FineTargets))
     \X MaterialLists(Pool))
  \cup
  (({ UnitBox } \X HeavyTargets) \X MaterialLists(HeavyPool))

(***************************************************************************)
(* State: the arguments, the locals and the returned value                 *)
(***************************************************************************)
VARIABLES dimensions, targetTotalWeight, frameWeight, materials,
          pc, volM3, netWeight, sortedMaterials, i, k, v1, v2,
          theoreticalWeight, result, unitThicknesses

args == << dimensions, targetTotalWeight, frameWeight, materials >>
locals == << volM3, netWeight, sortedMaterials, i, k, v1, v2, theoreticalWeight >>
vars == << args, pc, locals, result, unitThicknesses >>

\* lines 20-23: the unit thickness in mm of the materials '1' and '2'
DefaultThicknesses == (1 :> 100) @@ (2 :> 10)

\* a local that has not been assigned
Undefined == << >>

\* no value returned yet
NoResult ==
  [totalVolume |-> Undefined, netTargetWeight |-> Undefined, materials |-> << >>,
   isFeasible |-> FALSE, message |-> [text |-> "", names |-> << >>, clauses |-> << >>]]

\* the tolerances of the pair test and of the single-material test
VolumeTolerance == R(1, 1000000)
WeightTolerance == R(1, 10)

\* [...materials].sort((a, b) => a.priority - b.priority), a stable sort
RECURSIVE InsertByPriority(_, _)
InsertByPriority(m, s) ==
  IF s = << >> THEN << m >>
  ELSE IF Head(s).priority - m.priority > 0 THEN << m >> \o s
  ELSE << Head(s) >> \o InsertByPriority(m, Tail(s))

\* line 405 without the sort
Unsorted(ms) == ms

RECURSIVE SortByPriority(_)
SortByPriority(ms) ==
  IF ms = << >> THEN << >>
  ELSE InsertByPriority(ms[Len(ms)], SortByPriority(SubSeq(ms, 1, Len(ms) - 1)))

Densities(ms) == [j \in 1..Len(ms) |-> ms[j].density]

Init ==
  /\ \E sc \in Scenarios :
       /\ dimensions = sc[1][1]
       /\ targetTotalWeight = sc[1][2]
       /\ materials = sc[2]
  /\ frameWeight \in FrameWeights
  /\ pc = "start"
  /\ volM3 = Undefined
  /\ netWeight = Undefined
  /\ sortedMaterials = << >>
  /\ i = 0
  /\ k = 0
  /\ v1 = Undefined
  /\ v2 = Undefined
  /\ theoreticalWeight = Undefined
  /\ result = NoResult
  /\ unitThicknesses = DefaultThicknesses

\* lines 389-392: the volume in m3 and the net weight of the fill
ComputeVolumeAndNet ==
  /\ pc = "start"
  /\ volM3' = Mul(Mul(R(dimensions.width, 1000), R(dimensions.depth, 1000)),
                  R(dimensions.height, 1000))
  /\ netWeight' = Sub(targetTotalWeight, frameWeight)
  /\ pc' = "checkNet"
  /\ UNCHANGED << unitThicknesses, args, sortedMaterials, i, k, v1, v2, theoreticalWeight, result >>

\* line 394 with < for <=
FrameExceedsTargetStrict(net) == Less(net, Num(0))

\* line 394: netWeight <= 0
FrameExceedsTarget(net) == Leq(net, Num(0))

\* lines 394-402: the frame alone reaches the target
ReturnFrameExceedsTarget ==
  /\ pc = "checkNet"
  /\ FrameExceedsTarget(netWeight)
  /\ result' = [totalVolume |-> volM3, netTargetWeight |-> netWeight,
                materials |-> << >>, isFeasible |-> FALSE,
                message |-> [text |-> "FRAME_EXCEEDS_TARGET", names |-> << >>,
                             clauses |-> << >>]]
  /\ pc' = "done"
  /\ UNCHANGED << unitThicknesses, args, locals >>

\* line 405, and the start of the pair loop (line 413)
SortMaterials ==
  /\ pc = "checkNet"
  /\ ~FrameExceedsTarget(netWeight)
  /\ sortedMaterials' = SortByPriority(materials)
  /\ i' = 0
  /\ pc' = "pairs"
  /\ UNCHANGED << unitThicknesses, args, volM3, netWeight, k, v1, v2, theoreticalWeight, result >>

(***************************************************************************)
(* The adjacent-pair loop, lines 413-453                                   *)
(***************************************************************************)
\* line 423 with d1 for d2 in the numerator
SolveV1FromD1(net, vol, d1, d2) == Div(Sub(net, Mul(vol, d1)), Sub(d1, d2))

\* line 423: v1 = (netWeight - volM3 * d2) / (d1 - d2), for d1 # d2
SolveV1(net, vol, d1, d2) == Div(Sub(net, Mul(vol, d2)), Sub(d1, d2))

\* line 424: v2 = volM3 - v1
SolveV2(vol, a) == Sub(vol, a)

\* line 428 without its first comparison
PairAcceptedNoLower(a, b, vol) ==
  /\ Geq(b, Neg(VolumeTolerance))
  /\ Leq(a, Add(vol, VolumeTolerance))

\* line 428: the acceptance test of a solved pair
PairAccepted(a, b, vol) ==
  /\ Geq(a, Neg(VolumeTolerance))
  /\ Geq(b, Neg(VolumeTolerance))
  /\ Leq(a, Add(vol, VolumeTolerance))

\* lines 429-430 with Math.min and Math.max exchanged
ClampSwapped(vol, v) == MathMin(Num(0), MathMax(vol, v))

\* lines 429-430: Math.max(0, Math.min(volM3, v))
Clamp(vol, v) == MathMax(Num(0), MathMin(vol, v))

\* lines 442 and 448 without the factor 100
PercentageAsFraction(volume, vol) == Div(volume, vol)

\* lines 442 and 448: (volume / volM3) * 100
Percentage(volume, vol) == Mul(Div(volume, vol), Num(100))

\* lines 439-442: one entry of the result's materials
Allocation(m, volume, weight, percentage) ==
  [material |-> m, volume |-> volume, weight |-> weight, percentage |-> percentage]

\* lines 432-451: the result for an accepted pair
PairResult(vol, net, m1, m2, a, b) ==
  LET actualV1 == Clamp(vol, a)
      actualV2 == Clamp(vol, b)
  IN  [totalVolume |-> vol, netTargetWeight |-> net, isFeasible |-> TRUE,
       message |-> [text |-> "SUCCESS_PAIR", names |-> << m1.name, m2.name >>,
                    clauses |-> << >>],
       materials |->
         << Allocation(m1, actualV1, Mul(actualV1, m1.density),
                       Percentage(actualV1, vol)),
            Allocation(m2, actualV2, Mul(actualV2, m2.density),
                       Percentage(actualV2, vol)) >>]

\* line 420 with the test always false
SameDensityNever(d1, d2) == FALSE

\* line 420: d1 === d2
SameDensity(d1, d2) == d1 = d2

\* line 413: the loop condition i < sortedMaterials.length - 1
InPairLoop == pc = "pairs" /\ i < Len(sortedMaterials) - 1

\* line 420: equal densities, the pair is skipped
PairSkip ==
  /\ InPairLoop
  /\ SameDensity(sortedMaterials[i + 1].density, sortedMaterials[i + 2].density)
  /\ i' = i + 1
  /\ UNCHANGED << unitThicknesses, args, pc, volM3, netWeight, sortedMaterials, k, v1, v2,
                  theoreticalWeight, result >>

\* lines 423-451: the pair is solved and accepted
PairAccept ==
  /\ InPairLoop
  /\ LET m1 == sortedMaterials[i + 1]
         m2 == sortedMaterials[i + 2]
         a  == SolveV1(netWeight, volM3, m1.density, m2.density)
         b  == SolveV2(volM3, a)
     IN  /\ ~SameDensity(m1.density, m2.density)
         /\ PairAccepted(a, b, volM3)
         /\ v1' = a
         /\ v2' = b
         /\ result' = PairResult(volM3, netWeight, m1, m2, a, b)
  /\ pc' = "done"
  /\ UNCHANGED << unitThicknesses, args, volM3, netWeight, sortedMaterials, i, k, theoreticalWeight >>

\* lines 423-428 and 413: the pair is solved and rejected
PairReject ==
  /\ InPairLoop
  /\ LET m1 == sortedMaterials[i + 1]
         m2 == sortedMaterials[i + 2]
         a  == SolveV1(netWeight, volM3, m1.density, m2.density)
         b  == SolveV2(volM3, a)
     IN  /\ ~SameDensity(m1.density, m2.density)
         /\ ~PairAccepted(a, b, volM3)
         /\ v1' = a
         /\ v2' = b
  /\ i' = i + 1
  /\ UNCHANGED << unitThicknesses, args, pc, volM3, netWeight, sortedMaterials, k, theoreticalWeight,
                  result >>

\* line 413 fails: no pair was accepted, the single-material loop starts
PairsExhausted ==
  /\ pc = "pairs"
  /\ ~(i < Len(sortedMaterials) - 1)
  /\ k' = 0
  /\ pc' = "singles"
  /\ UNCHANGED << unitThicknesses, args, volM3, netWeight, sortedMaterials, i, v1, v2,
                  theoreticalWeight, result >>

(***************************************************************************)
(* The single-material loop, lines 456-474                                 *)
(***************************************************************************)
\* line 458 with a tolerance of 1 kg
SingleMatchesWithinOne(weight, net) == Less(MathAbs(Sub(weight, net)), Num(1))

\* line 458: Math.abs(theoreticalWeight - netWeight) < 0.1
SingleMatches(weight, net) == Less(MathAbs(Sub(weight, net)), WeightTolerance)

\* lines 459-472 with the flag of the failure result
SingleResultInfeasible(vol, net, m, weight) ==
  [totalVolume |-> vol, netTargetWeight |-> net, isFeasible |-> FALSE,
   message |-> [text |-> "SUCCESS_SINGLE", names |-> << m.name >>, clauses |-> << >>],
   materials |-> << [material |-> m, volume |-> vol, weight |-> weight,
                     percentage |-> Num(100)] >>]

\* lines 459-472: the result for a single material
SingleResult(vol, net, m, weight) ==
  [totalVolume |-> vol, netTargetWeight |-> net, isFeasible |-> TRUE,
   message |-> [text |-> "SUCCESS_SINGLE", names |-> << m.name >>, clauses |-> << >>],
   materials |-> << Allocation(m, vol, weight, Num(100)) >>]

InSingleLoop == pc = "singles" /\ k < Len(sortedMaterials)

\* lines 457-472: the material fills the whole volume at the net weight
SingleAccept ==
  /\ InSingleLoop
  /\ LET m == sortedMaterials[k + 1]
         w == Mul(volM3, m.density)
     IN  /\ SingleMatches(w, netWeight)
         /\ theoreticalWeight' = w
         /\ result' = SingleResult(volM3, netWeight, m, w)
  /\ pc' = "done"
  /\ UNCHANGED << unitThicknesses, args, volM3, netWeight, sortedMaterials, i, k, v1, v2 >>

\* lines 457-458 and 456: the material does not match
SingleReject ==
  /\ InSingleLoop
  /\ LET m == sortedMaterials[k + 1]
         w == Mul(volM3, m.density)
     IN  /\ ~SingleMatches(w, netWeight)
         /\ theoreticalWeight' = w
  /\ k' = k + 1
  /\ UNCHANGED << unitThicknesses, args, pc, volM3, netWeight, sortedMaterials, i, v1, v2, result >>

(***************************************************************************)
(* The diagnosis, lines 476-493                                            *)
(***************************************************************************)
\* lines 477 and 480 with Math.max for Math.min
MinWeightFromMax(vol, ms) == Mul(vol, MathMaxOf([j \in 1..Len(ms) |-> ms[j].density]))

\* lines 477-478 and 480-481
MinWeight(vol, ms) == Mul(vol, MathMinOf(Densities(ms)))
MaxWeight(vol, ms) == Mul(vol, MathMaxOf(Densities(ms)))

\* lines 483-485: the text, with the clauses appended to it
FailMessage(vol, net, ms) ==
  LET low  == IF Less(net, MinWeight(vol, ms))
              THEN << [tag |-> "TARGET_TOO_LOW", net |-> ToFixed1(net),
                       bound |-> ToFixed1(MinWeight(vol, ms))] >>
              ELSE << >>
      high == IF Greater(net, MaxWeight(vol, ms))
              THEN << [tag |-> "TARGET_TOO_HIGH", net |-> ToFixed1(net),
                       bound |-> ToFixed1(MaxWeight(vol, ms))] >>
              ELSE << >>
  IN  [text |-> "INFEASIBLE", names |-> << >>, clauses |-> low \o high]

\* lines 476-493: no pair and no single material fits
Diagnose ==
  /\ pc = "singles"
  /\ ~(k < Len(sortedMaterials))
  /\ result' = [totalVolume |-> volM3, netTargetWeight |-> netWeight,
                materials |-> << >>, isFeasible |-> FALSE,
                message |-> FailMessage(volM3, netWeight, materials)]
  /\ pc' = "done"
  /\ UNCHANGED << unitThicknesses, args, locals >>

Next ==
  \/ ComputeVolumeAndNet
  \/ ReturnFrameExceedsTarget
  \/ SortMaterials
  \/ PairSkip
  \/ PairAccept
  \/ PairReject
  \/ PairsExhausted
  \/ SingleAccept
  \/ SingleReject
  \/ Diagnose

Spec == Init /\ [][Next]_vars

(***************************************************************************)
(* Properties of the returned value                                        *)
(***************************************************************************)
Done == pc = "done"

RECURSIVE SumOf(_)
SumOf(xs) == IF xs = << >> THEN Num(0) ELSE Add(Head(xs), SumOf(Tail(xs)))

AllocatedVolumes == [j \in 1..Len(result.materials) |-> result.materials[j].volume]
AllocatedWeights == [j \in 1..Len(result.materials) |-> result.materials[j].weight]
AllocatedPercentages == [j \in 1..Len(result.materials) |-> result.materials[j].percentage]

\* C1: when targetTotalWeight <= frameWeight the function returns infeasible with
\* no allocation, netTargetWeight = targetTotalWeight - frameWeight and the reason
\* FRAME_EXCEEDS_TARGET, whatever the materials, and neither loop has run: no
\* pair was solved (v1, v2 unassigned) and no single material was weighed.
C1_FrameExceedsTarget ==
  (Done /\ Leq(targetTotalWeight, frameWeight)) =>
    /\ result.isFeasible = FALSE
    /\ result.materials = << >>
    /\ Sub(targetTotalWeight, frameWeight) = result.netTargetWeight
    /\ result.message.text = "FRAME_EXCEEDS_TARGET"
    /\ v1 = Undefined /\ v2 = Undefined /\ theoreticalWeight = Undefined
    /\ i = 0 /\ k = 0

\* the target equals the frame weight and three materials were passed
C1_Witness ==
  /\ Done
  /\ targetTotalWeight = frameWeight
  /\ Len(materials) = MaxMaterials
  /\ result.message.text = "FRAME_EXCEEDS_TARGET"

\* C2: in every feasible result the allocated volumes sum to totalVolume within
\* 1e-6 m3.
C2_VolumesSumToTotal ==
  (Done /\ result.isFeasible) =>
    Leq(MathAbs(Sub(SumOf(AllocatedVolumes), result.totalVolume)), VolumeTolerance)

\* a pair was accepted with v1 below 0 and clamped
C2_Witness ==
  /\ Done
  /\ result.isFeasible
  /\ Len(result.materials) = 2
  /\ Less(v1, Num(0))
  /\ result.materials[1].volume = Num(0)
  /\ result.materials[2].volume = result.totalVolume

\* C3 as claimed: in every feasible result the allocated weights sum to
\* netTargetWeight within less than 0.1 kg.
C3_WeightWithinTenthOfKg ==
  (Done /\ result.isFeasible) =>
    Less(MathAbs(Sub(SumOf(AllocatedWeights), result.netTargetWeight)), WeightTolerance)

\* C3 amended: a single-material result weighs netTargetWeight within less than
\* 0.1 kg; a pair result weighs netTargetWeight within 1e-6 m3 times the
\* difference of the two densities, hence within less than 0.1 kg when the
\* densities differ by less than 100000 kg/m3.
C3_WeightWithinClampError ==
  (Done /\ result.isFeasible) =>
    LET err == MathAbs(Sub(SumOf(AllocatedWeights), result.netTargetWeight))
    IN  IF Len(result.materials) = 2
        THEN LET diff == MathAbs(Sub(result.materials[1].material.density,
                                     result.materials[2].material.density))
             IN  /\ Leq(err, Mul(VolumeTolerance, diff))
                 /\ Less(diff, Num(100000)) => Less(err, WeightTolerance)
        ELSE Less(err, WeightTolerance)

\* a pair was accepted outside the range and clamped, so the weights miss the net
C3_Witness ==
  /\ Done
  /\ result.isFeasible
  /\ Len(result.materials) = 2
  /\ SumOf(AllocatedWeights) # result.netTargetWeight
  /\ Less(MathAbs(Sub(SumOf(AllocatedWeights), result.netTargetWeight)), WeightTolerance)

C5_EqualDensityNeverPaired ==
  /\ [](Done /\ Len(result.materials) = 2 =>
          result.materials[1].material.density # result.materials[2].material.density)
  /\ [](Done /\ (\A a, b \in DOMAIN materials : materials[a].density = materials[b].density)
          => result.message.text \in { "FRAME_EXCEEDS_TARGET", "SUCCESS_SINGLE", "INFEASIBLE" })
  /\ [][(InPairLoop /\ sortedMaterials[i + 1].density = sortedMaterials[i + 2].density)
          => (i' = i + 1 /\ pc' = "pairs" /\ v1' = v1 /\ v2' = v2 /\ result' = result)]_vars

\* the first pair had equal densities and the second pair was returned
C5_Witness ==
  /\ Done
  /\ Len(sortedMaterials) = 3
  /\ sortedMaterials[1].density = sortedMaterials[2].density
  /\ i = 1
  /\ result.message.text = "SUCCESS_PAIR"
  /\ result.materials[1].material = sortedMaterials[2]

\* an upper bound of the statements left before the function returns
StepsLeft ==
  CASE pc = "start" -> 2 * Len(materials) + 4
    [] pc = "checkNet" -> 2 * Len(materials) + 3
    [] pc = "pairs" -> 2 * Len(materials) + 2 - i
    [] pc = "singles" -> Len(materials) + 1 - k
    [] pc = "done" -> 0

\* C6: the result has 0, 1 or 2 allocations: 0 exactly when infeasible, 1 exactly
\* for a single-material result (volume = totalVolume, percentage 100), 2 exactly
\* for a pair result; and the function returns for every materials list, the
\* empty one included: every access to the sorted list is within it and each
\* statement brings the return nearer.
C6_AllocationCount ==
  /\ [](Done =>
          /\ Len(result.materials) \in { 0, 1, 2 }
          /\ Len(result.materials) = 0 <=> ~result.isFeasible
          /\ Len(result.materials) = 1 <=> result.message.text = "SUCCESS_SINGLE"
          /\ Len(result.materials) = 2 <=> result.message.text = "SUCCESS_PAIR"
          /\ Len(result.materials) = 1 =>
               /\ result.materials[1].volume = result.totalVolume
               /\ result.materials[1].percentage = Num(100)
          /\ result.message.text \in
               { "FRAME_EXCEEDS_TARGET", "SUCCESS_PAIR", "SUCCESS_SINGLE", "INFEASIBLE" })
  /\ [](/\ pc \in { "start", "checkNet", "pairs", "singles", "done" }
        /\ InPairLoop => (i >= 0 /\ i + 2 <= Len(sortedMaterials))
        /\ InSingleLoop => (k >= 0 /\ k + 1 <= Len(sortedMaterials))
        /\ StepsLeft >= 0
        /\ StepsLeft = 0 <=> Done)
  /\ [][StepsLeft' < StepsLeft]_vars

\* a list of one material gave a single-material result
C6_Witness ==
  /\ Done
  /\ Len(materials) = 1
  /\ Len(result.materials) = 1
  /\ result.isFeasible

\* the application's initial state, lines 15-17 and 26-29
DefaultInputs ==
  /\ dimensions = DefaultBox
  /\ targetTotalWeight = Num(780)
  /\ frameWeight = Num(79)
  /\ materials = << [id |-> 1, name |-> "Beton", density |-> Num(2400), priority |-> 1],
                    [id |-> 2, name |-> "Ocel", density |-> Num(7850), priority |-> 2] >>

\* x is y when rounded to a step of 2 * eps
Approx(x, y, eps) == Leq(MathAbs(Sub(x, y)), eps)

\* C7 as claimed: for the default inputs the result is Beton 0.0809 m3 (194.2 kg)
\* and Ocel 0.0271 m3 (212.7 kg).
C7_DefaultAsClaimed ==
  (Done /\ DefaultInputs) =>
    /\ result.isFeasible
    /\ Len(result.materials) = 2
    /\ result.materials[1].material.name = "Beton"
    /\ Approx(result.materials[1].volume, R(809, 10000), R(5, 100000))
    /\ Approx(result.materials[1].weight, R(1942, 10), R(5, 100))
    /\ Approx(result.materials[2].volume, R(271, 10000), R(5, 100000))
    /\ Approx(result.materials[2].weight, R(2127, 10), R(5, 100))

\* C7 amended: for the default inputs totalVolume = 0.108 m3, netTargetWeight =
\* 701 kg and the result is feasible with two allocations, Beton first: Beton
\* 0.0269 m3 (64.6 kg) and Ocel 0.0811 m3 (636.4 kg).
C7_DefaultResult ==
  (Done /\ DefaultInputs) =>
    /\ result.totalVolume = R(108, 1000)
    /\ result.netTargetWeight = Num(701)
    /\ result.isFeasible
    /\ Len(result.materials) = 2
    /\ result.materials[1].material.name = "Beton"
    /\ result.materials[2].material.name = "Ocel"
    /\ Approx(result.materials[1].volume, R(269, 10000), R(5, 100000))
    /\ Approx(result.materials[1].weight, R(646, 10), R(5, 100))
    /\ Approx(result.materials[2].volume, R(811, 10000), R(5, 100000))
    /\ Approx(result.materials[2].weight, R(6364, 10), R(5, 100))

\* the function has returned for the default inputs
C7_Witness == Done /\ DefaultInputs /\ result.message.names = << "Beton", "Ocel" >>

\* the densities passed, and the lowest and highest of them
DensitySet == { materials[j].density : j \in DOMAIN materials }

LowestDensity ==
  IF DensitySet = {} THEN Infinity
  ELSE CHOOSE d \in DensitySet : \A e \in DensitySet : Leq(d, e)

HighestDensity ==
  IF DensitySet = {} THEN NegInfinity
  ELSE CHOOSE d \in DensitySet : \A e \in DensitySet : Leq(e, d)

ClausesTagged(tag) ==
  { result.message.clauses[j] : j \in { n \in DOMAIN result.message.clauses :
                                          result.message.clauses[n].tag = tag } }

\* shown is x written with one decimal
ToOneDecimal(shown, x) ==
  \/ shown = x
  \/ /\ IsFinite(shown) /\ IsFinite(x)
     /\ Leq(MathAbs(Sub(shown, x)), R(1, 20))
     /\ Mul(shown, Num(10))[2] = 1

\* C8: an infeasible result with netTargetWeight > 0 reports TARGET_TOO_LOW exactly
\* when netTargetWeight < totalVolume x the lowest density, and TARGET_TOO_HIGH
\* exactly when netTargetWeight > totalVolume x the highest density, each with
\* that bound (written with one decimal).
C8_Diagnosis ==
  (Done /\ ~result.isFeasible /\ Less(Num(0), result.netTargetWeight)) =>
    LET lowest  == Mul(result.totalVolume, LowestDensity)
        highest == Mul(result.totalVolume, HighestDensity)
    IN  /\ ClausesTagged("TARGET_TOO_LOW") # {} <=> Less(result.netTargetWeight, lowest)
        /\ ClausesTagged("TARGET_TOO_HIGH") # {} <=> Less(highest, result.netTargetWeight)
        /\ \A c \in ClausesTagged("TARGET_TOO_LOW") : ToOneDecimal(c.bound, lowest)
        /\ \A c \in ClausesTagged("TARGET_TOO_HIGH") : ToOneDecimal(c.bound, highest)
        /\ Len(result.message.clauses) =
             Cardinality(ClausesTagged("TARGET_TOO_LOW"))
               + Cardinality(ClausesTagged("TARGET_TOO_HIGH"))

\* one material of density 500 in 1 m3 with a net target of 10000 kg
C8_Witness ==
  /\ Done
  /\ dimensions = UnitBox
  /\ Len(materials) = 1
  /\ materials[1].density = Num(500)
  /\ result.netTargetWeight = Num(10000)
  /\ ~result.isFeasible
  /\ result.message.clauses =
       << [tag |-> "TARGET_TOO_HIGH", net |-> Num(10000), bound |-> Num(500)] >>

\* the material with r - 1 materials of lower priority number
Ranked(r) ==
  CHOOSE m \in { materials[j] : j \in DOMAIN materials } :
    Cardinality({ j \in DOMAIN materials : materials[j].priority < m.priority }) = r - 1

\* v1 of the claims for the pair (m1, m2), and the test on both volumes
ClaimedV1(m1, m2) ==
  Div(Sub(Sub(targetTotalWeight, frameWeight), Mul(volM3, m2.density)),
      Sub(m1.density, m2.density))

WithinTolerance(v) ==
  Leq(Neg(VolumeTolerance), v) /\ Leq(v, Add(volM3, VolumeTolerance))

PairPasses(m1, m2) ==
  /\ m1.density # m2.density
  /\ WithinTolerance(ClaimedV1(m1, m2))
  /\ WithinTolerance(Sub(volM3, ClaimedV1(m1, m2)))

\* C9: a pair result allocates the materials ranked r and r + 1 by priority, in
\* that order, for the smallest r whose pair has distinct densities and passes
\* the test; the loop stopped at that pair.
C9_FirstAcceptedPair ==
  (Done /\ Len(result.materials) = 2) =>
    \E r \in 1..(Len(materials) - 1) :
      /\ result.materials[1].material = Ranked(r)
      /\ result.materials[2].material = Ranked(r + 1)
      /\ PairPasses(Ranked(r), Ranked(r + 1))
      /\ \A q \in 1..(r - 1) : ~PairPasses(Ranked(q), Ranked(q + 1))
      /\ i = r - 1

\* an unsorted list of three whose first two ranks were returned although the
\* second and third would pass as well
C9_Witness ==
  /\ Done
  /\ Len(result.materials) = 2
  /\ Len(materials) = 3
  /\ materials[1].priority = 3
  /\ i = 0
  /\ PairPasses(Ranked(2), Ranked(3))

\* v clamped into [0, volM3]
ClampedVolume(v) ==
  IF Less(v, Num(0)) THEN Num(0) ELSE IF Less(volM3, v) THEN volM3 ELSE v

\* C10: a pair of distinct densities is solved as v1 = (netTargetWeight -
\* totalVolume x d2) / (d1 - d2), v2 = totalVolume - v1; it is accepted exactly
\* when v1 and v2 both lie in [-1e-6, totalVolume + 1e-6], and then the volumes
\* returned are v1 and v2 clamped into [0, totalVolume]; otherwise the loop goes on.
C10_AcceptanceTest ==
  [][(InPairLoop /\ sortedMaterials[i + 1].density # sortedMaterials[i + 2].density) =>
       LET a == ClaimedV1(sortedMaterials[i + 1], sortedMaterials[i + 2])
           b == Sub(volM3, a)
       IN  /\ v1' = a
           /\ v2' = b
           /\ pc' = "done" <=> (WithinTolerance(a) /\ WithinTolerance(b))
           /\ pc' = "done" =>
                /\ result'.message.text = "SUCCESS_PAIR"
                /\ result'.materials[1].volume = ClampedVolume(a)
                /\ result'.materials[2].volume = ClampedVolume(b)
           /\ pc' # "done" => (pc' = "pairs" /\ i' = i + 1 /\ result' = result)]_vars

\* a pair was accepted with v1 above totalVolume and clamped down to it
C10_Witness ==
  /\ Done
  /\ Len(result.materials) = 2
  /\ Less(volM3, v1)
  /\ Less(v2, Num(0))
  /\ result.materials[1].volume = volM3
  /\ result.materials[2].volume = Num(0)

\* the material ranked r fills the whole volume within 0.1 kg of the net weight
FillsAlone(r) ==
  LET off == Sub(Mul(volM3, Ranked(r).density), Sub(targetTotalWeight, frameWeight))
  IN  Less(off, R(1, 10)) /\ Less(Neg(off), R(1, 10))

SomePairPasses == \E q \in 1..(Len(materials) - 1) : PairPasses(Ranked(q), Ranked(q + 1))

\* C11: a single-material result is returned exactly when the net weight is
\* positive, no adjacent pair passes and some material fills the volume within
\* 0.1 kg; the material is the first such in ascending-priority order, with
\* volume = totalVolume, weight = totalVolume x density and percentage 100; with
\* fewer than two materials no pair is solved.
C11_SingleFallback ==
  Done =>
    /\ Len(result.materials) = 1 <=>
         /\ Less(Num(0), Sub(targetTotalWeight, frameWeight))
         /\ ~SomePairPasses
         /\ \E r \in 1..Len(materials) : FillsAlone(r)
    /\ Len(result.materials) = 1 =>
         \E r \in 1..Len(materials) :
           /\ FillsAlone(r)
           /\ \A q \in 1..(r - 1) : ~FillsAlone(q)
           /\ result.materials[1].material = Ranked(r)
           /\ result.materials[1].volume = volM3
           /\ result.materials[1].weight = Mul(volM3, Ranked(r).density)
           /\ result.materials[1].percentage = Num(100)
           /\ result.isFeasible
           /\ k = r - 1
    /\ Len(materials) < 2 => (v1 = Undefined /\ v2 = Undefined /\ i = 0)

\* one material of density 1000 in 1 m3 with a net target of 1000 kg
C11_Witness ==
  /\ Done
  /\ dimensions = UnitBox
  /\ Len(materials) = 1
  /\ materials[1].density = Num(1000)
  /\ result.netTargetWeight = Num(1000)
  /\ result.isFeasible
  /\ Len(result.materials) = 1
  /\ result.materials[1].percentage = Num(100)

\* the pairs were solved and rejected, then the second-ranked material matched
C11_WitnessAfterPairs ==
  /\ Done
  /\ Len(result.materials) = 1
  /\ v1 # Undefined
  /\ k >= 1

\* the densities do not rise or fall monotonically along the priority ranking
NonMonotonicDensities ==
  \E r \in 2..(Len(materials) - 1) :
    \/ Less(Ranked(r - 1).density, Ranked(r).density)
         /\ Less(Ranked(r + 1).density, Ranked(r).density)
    \/ Less(Ranked(r).density, Ranked(r - 1).density)
         /\ Less(Ranked(r).density, Ranked(r + 1).density)

\* C14: for a non-empty materials list and netTargetWeight > 0, a net weight
\* between totalVolume x the lowest density and totalVolume x the highest density
\* gives a feasible result, whatever the order of the densities along the
\* priority ranking; and every infeasible result reports exactly one of
\* TARGET_TOO_LOW and TARGET_TOO_HIGH.
C14_PairSearchComplete ==
  (Done /\ materials # << >> /\ Less(Num(0), result.netTargetWeight)) =>
    /\ (/\ Leq(Mul(result.totalVolume, LowestDensity), result.netTargetWeight)
        /\ Leq(result.netTargetWeight, Mul(result.totalVolume, HighestDensity)))
         => result.isFeasible
    /\ ~result.isFeasible =>
         /\ Len(result.message.clauses) = 1
         /\ result.message.clauses[1].tag \in { "TARGET_TOO_LOW", "TARGET_TOO_HIGH" }

\* the densities go up and down along the ranking, the first pair was rejected
\* and the second pair reached a net weight strictly inside the range
C14_Witness ==
  /\ Done
  /\ Len(materials) = 3
  /\ NonMonotonicDensities
  /\ i = 1
  /\ result.isFeasible
  /\ Len(result.materials) = 2
  /\ Less(Mul(result.totalVolume, LowestDensity), result.netTargetWeight)
  /\ Less(result.netTargetWeight, Mul(result.totalVolume, HighestDensity))

(***************************************************************************)
(* The materials editor of App, lines 20-29, 42-86 and 212-225.            *)
(*                                                                         *)
(* materials and unitThicknesses are the component's state; handlers run   *)
(* from the controls of the rendered rows, which are disabled as lines     *)
(* 219-225 say.  Ids are strings in the source ('1', '2', then             *)
(* Date.now().toString()) and numbers here.  The render's call of          *)
(* calculateCounterweight (line 130) is the specification Spec.            *)
(***************************************************************************)
\* longest materials list the editor is taken to
MaxListLength == 3

\* latest value of Date.now() explored; the first is FirstClock
MaxClock == 4

FirstClock == 3

\* lines 26-29
DefaultMaterials ==
  << [id |-> 1, name |-> "Beton", density |-> Num(2400), priority |-> 1],
     [id |-> 2, name |-> "Ocel", density |-> Num(7850), priority |-> 2] >>

\* line 46: `Material ${n}`
NewMaterialName(n) ==
  << "Material 1", "Material 2", "Material 3", "Material 4", "Material 5",
     "Material 6" >>[n]

\* names typed into the name field, and densities typed into the density field
\* (parseFloat(value) || 0, line 225)
TypedNames == { "OCEL", "Pisek" }
TypedDensities == { Num(0), Num(2400) }

\* String.prototype.toLowerCase on the names that occur
ToLowerCase(str) ==
  CASE str \in { "Ocel", "OCEL", "ocel" } -> "ocel"
    [] str = "Beton" -> "beton"
    [] str = "Pisek" -> "pisek"
    [] str = "Material 1" -> "material 1"
    [] str = "Material 2" -> "material 2"
    [] str = "Material 3" -> "material 3"
    [] str = "Material 4" -> "material 4"
    [] str = "Material 5" -> "material 5"
    [] str = "Material 6" -> "material 6"
    [] OTHER -> str

\* line 213 (and the test of line 62): m.name.toLowerCase() === 'ocel'
IsSteel(m) == ToLowerCase(m.name) = "ocel"

\* lines 56 and 85 without the renumbering
KeepPriorities(ms) == ms

\* lines 56 and 85: ms.map((m, idx) => ({ ...m, priority: idx + 1 }))
Renumber(ms) == [j \in 1..Len(ms) |-> [ms[j] EXCEPT !.priority = j]]

\* lines 44-49: the list with the new material appended
WithNewMaterial(ms, newId) ==
  Append(ms, [id |-> newId, name |-> NewMaterialName(Len(ms) + 1),
              density |-> Num(1000), priority |-> Len(ms) + 1])

\* lines 55-56: the list without the materials of that id
WithoutMaterial(ms, id) ==
  LET Kept(m) == m.id # id IN Renumber(SelectSeq(ms, Kept))

\* lines 60-68: updateMaterial(id, 'name', val)
WithName(ms, id, val) ==
  [j \in 1..Len(ms) |-> IF ms[j].id = id THEN [ms[j] EXCEPT !.name = val] ELSE ms[j]]

\* lines 60-68: updateMaterial(id, 'density', val)
WithDensity(ms, id, val) ==
  [j \in 1..Len(ms) |->
     IF ms[j].id = id
     THEN IF ToLowerCase(ms[j].name) = "ocel"
          THEN [ms[j] EXCEPT !.density = Num(7850)]
          ELSE [ms[j] EXCEPT !.density = val]
     ELSE ms[j]]

\* lines 77-85: the list with the entries at index and targetIndex exchanged
\* (index is 0-based as in the source)
Moved(ms, index, targetIndex) ==
  Renumber([j \in 1..Len(ms) |->
              IF j = index + 1 THEN ms[targetIndex + 1]
              ELSE IF j = targetIndex + 1 THEN ms[index + 1]
              ELSE ms[j]])

\* Date.now() when a material is added: not before any id given out so far
ClockValues ==
  { t \in FirstClock..MaxClock : \A d \in DOMAIN unitThicknesses : t >= d }

calcVars == << pc, locals, result >>
settings == << dimensions, targetTotalWeight, frameWeight >>

\* lines 15-29: the component's initial state
AppInit ==
  /\ dimensions = DefaultBox
  /\ targetTotalWeight = Num(780)
  /\ frameWeight = Num(79)
  /\ materials = DefaultMaterials
  /\ unitThicknesses = DefaultThicknesses
  /\ pc = "start"
  /\ volM3 = Undefined
  /\ netWeight = Undefined
  /\ sortedMaterials = << >>
  /\ i = 0
  /\ k = 0
  /\ v1 = Undefined
  /\ v2 = Undefined
  /\ theoreticalWeight = Undefined
  /\ result = NoResult

\* lines 42-51, from the button of line 208
addMaterial ==
  /\ Len(materials) < MaxListLength
  /\ \E newId \in ClockValues :
       /\ materials' = WithNewMaterial(materials, newId)
       /\ unitThicknesses' = (newId :> 50) @@ unitThicknesses
  /\ UNCHANGED << settings, calcVars >>

\* lines 53-57, from the button of line 220 (disabled for steel and at length 2)
removeMaterial ==
  /\ \E idx \in 1..Len(materials) :
       /\ ~(Len(materials) <= 2 \/ IsSteel(materials[idx]))
       /\ IF Len(materials) <= 2
          THEN materials' = materials
          ELSE materials' = WithoutMaterial(materials, materials[idx].id)
  /\ UNCHANGED << settings, calcVars, unitThicknesses >>

\* lines 59-69 with field 'name', from the input of line 224 (disabled for steel)
updateMaterialName ==
  /\ \E idx \in 1..Len(materials), val \in TypedNames :
       /\ ~IsSteel(materials[idx])
       /\ materials' = WithName(materials, materials[idx].id, val)
  /\ UNCHANGED << settings, calcVars, unitThicknesses >>

\* lines 59-69 with field 'density', from the input of line 225 (disabled for steel)
updateMaterialDensity ==
  /\ \E idx \in 1..Len(materials), val \in TypedDensities :
       /\ ~IsSteel(materials[idx])
       /\ materials' = WithDensity(materials, materials[idx].id, val)
  /\ UNCHANGED << settings, calcVars, unitThicknesses >>

\* lines 76-86, for any index of the list and both directions (the button of
\* line 219 calls it with 'up' for the indexes above 0)
movePriority ==
  /\ \E index \in 0..(Len(materials) - 1), direction \in { "up", "down" } :
       LET targetIndex == IF direction = "up" THEN index - 1 ELSE index + 1
       IN  IF targetIndex < 0 \/ targetIndex >= Len(materials)
           THEN materials' = materials
           ELSE materials' = Moved(materials, index, targetIndex)
  /\ UNCHANGED << settings, calcVars, unitThicknesses >>

AppNext ==
  \/ addMaterial
  \/ removeMaterial
  \/ updateMaterialName
  \/ updateMaterialDensity
  \/ movePriority

AppSpec == AppInit /\ [][AppNext]_vars

\* C12: after any sequence of addMaterial, removeMaterial, movePriority and
\* updateMaterial on name or density, the material at list index k has priority
\* k + 1, so the priorities are exactly 1..n and no two materials share one.
C12_PrioritiesContiguous ==
  /\ \A j \in 1..Len(materials) : materials[j].priority = j
  /\ \A a, b \in 1..Len(materials) :
       a # b => materials[a].priority # materials[b].priority

\* a material was added and the steel of the initial list was moved to the top
C12_Witness ==
  /\ Len(materials) = 3
  /\ materials[1].id = 2
  /\ materials[1].priority = 1
  /\ materials[2].id = 1
  /\ materials[3].id >= FirstClock

\* C13: every material whose name is 'ocel' in any letter case has density 7850.
C13_SteelDensityFixed ==
  \A j \in 1..Len(materials) :
    ToLowerCase(materials[j].name) = "ocel" => materials[j].density = Num(7850)

====
